---- MODULE Spec2Model ----
(***************************************************************************)
(* Model of mmp-to-musicXML.py: the conversion of an LMMS project (tracks  *)
(* of pattern chunks of notes) into a MusicXML score-partwise document.    *)
(* The script is Python 3 (ET.tostring(..., encoding="unicode")), so "/"   *)
(* is true division and int() truncates toward zero.                       *)
(***************************************************************************)
EXTENDS Integers, Sequences, FiniteSets, TLC

VARIABLES
    tracks,             \* the parsed .mmp tree: the track elements, in document order
    pc,                 \* position in the script
    ti,                 \* index of the track the current loop is at
    partList,           \* the score-part elements under part-list
    parts,              \* the part elements under score-partwise
    instrumentCounter,
    emptyInstruments,
    partMeasures,       \* part element (its index in parts) -> last measure with notes
    ci, ni,             \* flattening loop: pattern chunk index, note index in the chunk
    measureNum,         \* running measure counter of the flattening loop
    patternNotes,       \* the (note, measure) tuples collected so far
    notes,              \* patternNotes sorted by position
    positionLengths,    \* the length table of the current part
    k,                  \* layout loop index
    lastMeasureNum,
    positionsSeen,
    currMeasure,        \* index (in the current part) of the measure being filled
    gap,                \* argument of a stand-alone getRests call
    restsToAdd,         \* its result
    givenLength,        \* argument of a stand-alone findClosestNoteType call
    closestType         \* its result

vars == <<tracks, pc, ti, partList, parts, instrumentCounter, emptyInstruments,
          partMeasures, ci, ni, measureNum, patternNotes, notes, positionLengths,
          k, lastMeasureNum, positionsSeen, currMeasure, gap, restsToAdd,
          givenLength, closestType>>

----------------------------------------------------------------------------
(* Program constants *)

LMMS_MEASURE_LENGTH == 192

NUM_DIVISIONS == 8

INSTRUMENTS ==
    {"piano", "bass", "vibes", "orchestra", "violin", "cello", "tuba", "trombone",
     "french horn", "horn", "trumpet", "flute", "oboe", "clarinet", "bassoon",
     "street bass", "guitar", "str", "marc str", "pizz", "harp", "piccolo"}

BASS_INSTRUMENTS ==
    {"bass", "cello", "double bass", "trombone", "tuba", "bassoon", "street bass"}

\* pitch class -> <<step letter, sharp?>>
NOTES ==
    [i \in 0..11 |->
        CASE i = 0 -> <<"C", FALSE>> [] i = 1 -> <<"C", TRUE>>
          [] i = 2 -> <<"D", FALSE>> [] i = 3 -> <<"D", TRUE>>
          [] i = 4 -> <<"E", FALSE>> [] i = 5 -> <<"F", FALSE>>
          [] i = 6 -> <<"F", TRUE>>  [] i = 7 -> <<"G", FALSE>>
          [] i = 8 -> <<"G", TRUE>>  [] i = 9 -> <<"A", FALSE>>
          [] i = 10 -> <<"A", TRUE>> [] OTHER -> <<"B", FALSE>>]

NOTE_TYPE ==
    [t \in {"whole", "half", "quarter", "eighth", "16th", "32nd", "64th"} |->
        CASE t = "whole" -> 192 [] t = "half" -> 96 [] t = "quarter" -> 48
          [] t = "eighth" -> 24 [] t = "16th" -> 12 [] t = "32nd" -> 6
          [] OTHER -> 3]

NOTE_LENGTHS ==
    [l \in {192, 168, 144, 96, 72, 48, 36, 24, 12, 6, 3} |->
        CASE l = 192 -> "whole"
          [] l \in {168, 144, 96} -> "half"
          [] l \in {72, 48} -> "quarter"
          [] l \in {36, 24} -> "eighth"
          [] l = 12 -> "16th"
          [] l = 6 -> "32nd"
          [] OTHER -> "64th"]

CLEF_TYPE ==
    [c \in {"treble", "bass"} |->
        IF c = "treble" THEN [sign |-> "G", line |-> 2] ELSE [sign |-> "F", line |-> 4]]

----------------------------------------------------------------------------
(* Python arithmetic *)

\* int(a / b) for b > 0: true division, then truncation toward zero
IntDiv(a, b) == IF a >= 0 THEN a \div b ELSE -((-a) \div b)

\* int(math.ceil(a / b)) for a >= 0, b > 0
CeilDiv(a, b) == (a + b - 1) \div b

RECURSIVE SumSeq(_)
SumSeq(s) == IF s = <<>> THEN 0 ELSE Head(s) + SumSeq(Tail(s))

Max(S) == CHOOSE x \in S : \A y \in S : y <= x

\* the text of a duration element: <<>> is the empty text, <<n>> the text of n
DurText(n) == <<n>>

----------------------------------------------------------------------------
(* Helper functions of the script *)

\* findClosestNoteType going through the lengths in ascending order
findClosestNoteTypeAscending(length) ==
    LET fit == {nl \in DOMAIN NOTE_LENGTHS : nl <= length}
    IN  IF fit # {} THEN NOTE_LENGTHS[CHOOSE x \in fit : \A y \in fit : x <= y]
        ELSE NOTE_LENGTHS[3]

findClosestNoteType(length) ==
    LET fit == {nl \in DOMAIN NOTE_LENGTHS : nl <= length}
    IN  IF fit # {} THEN NOTE_LENGTHS[Max(fit)] ELSE NOTE_LENGTHS[3]

addNote(note, isChord, lengthTable) ==
    LET pitch == NOTES[note.key % 12]
        noteLength == NOTE_TYPE[findClosestNoteType(lengthTable[note.pos])]
    IN  [kind |-> "note", chord |-> isChord, pos |-> note.pos,
         step |-> pitch[1], alter |-> pitch[2], octave |-> IntDiv(note.key, 12),
         duration |-> DurText(IntDiv(noteLength, 6)),
         type |-> findClosestNoteType(noteLength)]

addRest(type) ==
    [kind |-> "rest", measure |-> FALSE,
     duration |-> CASE type = "32nd" -> DurText(1)
                    [] type = "16th" -> DurText(2)
                    [] type = "eighth" -> DurText(4)
                    [] type = "quarter" -> DurText(8)
                    [] type = "half" -> DurText(16)
                    [] OTHER -> <<>>,
     type |-> type]

\* getRests with the quarter rests counted from the whole distance
getRestsQuarterFromStart(initialDistance) ==
    LET numWholeRests == IntDiv(initialDistance, LMMS_MEASURE_LENGTH)
        rem1 == initialDistance - numWholeRests * LMMS_MEASURE_LENGTH
        numQuarterRests == IntDiv(initialDistance, 48)
        rem2 == rem1 - IntDiv(rem1, 48) * 48
        numEighthRests == IntDiv(rem2, 24)
        rem3 == rem2 - numEighthRests * 24
        num16thRests == IntDiv(rem3, 12)
        rem4 == rem3 - num16thRests * 12
        num32ndRests == IntDiv(rem4, 6)
        rem5 == rem4 - num32ndRests * 6
        num64thRests == IntDiv(rem5, 3)
    IN  << <<"64th", num64thRests>>, <<"32nd", num32ndRests>>,
           <<"16th", num16thRests>>, <<"eighth", numEighthRests>>,
           <<"quarter", numQuarterRests>>, <<"whole", numWholeRests>> >>

\* the OrderedDict returned by getRests, as its (key, value) pairs in insertion order
getRests(initialDistance) ==
    LET numWholeRests == IntDiv(initialDistance, LMMS_MEASURE_LENGTH)
        rem1 == initialDistance - numWholeRests * LMMS_MEASURE_LENGTH
        numQuarterRests == IntDiv(rem1, 48)
        rem2 == rem1 - numQuarterRests * 48
        numEighthRests == IntDiv(rem2, 24)
        rem3 == rem2 - numEighthRests * 24
        num16thRests == IntDiv(rem3, 12)
        rem4 == rem3 - num16thRests * 12
        num32ndRests == IntDiv(rem4, 6)
        rem5 == rem4 - num32ndRests * 6
        num64thRests == IntDiv(rem5, 3)
    IN  << <<"64th", num64thRests>>, <<"32nd", num32ndRests>>,
           <<"16th", num16thRests>>, <<"eighth", numEighthRests>>,
           <<"quarter", numQuarterRests>>, <<"whole", numWholeRests>> >>

\* the rest elements appended by "for rest in restsToAdd: for l in range(0, restsToAdd[rest])"
RECURSIVE RestItems(_)
RestItems(rests) ==
    IF rests = <<>> THEN <<>>
    ELSE LET type == Head(rests)[1]
             count == Head(rests)[2]
         IN  [i \in 1..(IF count > 0 THEN count ELSE 0) |-> addRest(type)]
                 \o RestItems(Tail(rests))

\* the note element of a full-measure rest (createFirstMeasure with isRest, addRestMeasure)
MeasureRest == [kind |-> "rest", measure |-> TRUE, duration |-> DurText(32)]

NoAttributes == [present |-> FALSE]

createFirstMeasure(measureCounter, clefType, isRest) ==
    [number |-> measureCounter,
     attributes |-> [present |-> TRUE, divisions |-> NUM_DIVISIONS, fifths |-> 0,
                     beats |-> 4, beatType |-> 4, clef |-> CLEF_TYPE[clefType]],
     items |-> IF isRest THEN <<MeasureRest>> ELSE <<>>]

addRestMeasure(measureCounter) ==
    [number |-> measureCounter, attributes |-> NoAttributes, items |-> <<MeasureRest>>]

addNewMeasure(measureNumber) ==
    [number |-> measureNumber, attributes |-> NoAttributes, items |-> <<>>]

----------------------------------------------------------------------------
(* createLengthTable *)

InTable(table, p) == p \in DOMAIN table

\* ChordEntry without the check against the following note
ChordEntryNoNext(table, noteList, i) ==
    LET p == noteList[i].pos
        l == noteList[i].len
    IN  IF l < table[p] THEN l ELSE table[p]

\* ChordEntry that keeps the first note's entry when a shorter note joins the chord
ChordEntryNoShrink(table, noteList, i) ==
    LET p == noteList[i].pos
        l == noteList[i].len
    IN  IF /\ i < Len(noteList)
           /\ l + p > noteList[i + 1].pos
           /\ p # noteList[i + 1].pos
           /\ noteList[i + 1].pos - p < table[p]
        THEN noteList[i + 1].pos - p
        ELSE table[p]

\* lines 286-300: the position is already in the table (a chord)
ChordEntry(table, noteList, i) ==
    LET p == noteList[i].pos
        l == noteList[i].len
        shrunk == IF l < table[p] THEN l ELSE table[p]
    IN  IF /\ i < Len(noteList)
           /\ l + p > noteList[i + 1].pos
           /\ p # noteList[i + 1].pos
           /\ noteList[i + 1].pos - p < shrunk
        THEN noteList[i + 1].pos - p
        ELSE shrunk

\* TruncateToMeasure without the truncation
TruncateToMeasureNever(p, l, measure) == l

\* lines 303-312: truncate a note that carries over into the next measure
TruncateToMeasure(p, l, measure) ==
    LET currMeasurePos == (measure - 1) * LMMS_MEASURE_LENGTH
        nextMeasurePos == currMeasurePos + LMMS_MEASURE_LENGTH
    IN  IF p + l > nextMeasurePos THEN nextMeasurePos - p ELSE l

\* TruncateToNext without the check that the next note is at another position
TruncateToNextAnyPosition(p, l, noteList, i) ==
    IF /\ i < Len(noteList)
       /\ l + p > noteList[i + 1].pos
    THEN noteList[i + 1].pos - p
    ELSE l

\* lines 314-323: truncate a note that overlaps the next note's position
TruncateToNext(p, l, noteList, i) ==
    IF /\ i < Len(noteList)
       /\ l + p > noteList[i + 1].pos
       /\ p # noteList[i + 1].pos
    THEN noteList[i + 1].pos - p
    ELSE l

\* lines 302-326: the position is new
NewEntry(noteList, i) ==
    LET p == noteList[i].pos
    IN  TruncateToNext(p, TruncateToMeasure(p, noteList[i].len, noteList[i].measure),
                       noteList, i)

RECURSIVE LengthTableFrom(_, _, _)
LengthTableFrom(noteList, i, table) ==
    IF i > Len(noteList) THEN table
    ELSE LET p == noteList[i].pos
             entry == IF InTable(table, p) THEN ChordEntry(table, noteList, i)
                      ELSE NewEntry(noteList, i)
         IN  LengthTableFrom(noteList, i + 1,
                             [q \in DOMAIN table \cup {p} |->
                                 IF q = p THEN entry ELSE table[q]])

EmptyTable == [q \in {} |-> 0]

createLengthTable(noteList) == LengthTableFrom(noteList, 1, EmptyTable)

----------------------------------------------------------------------------
(* Flattening of the pattern chunks *)

\* line 420: the measure a chunk starts in
ChunkMeasure(chunkPos) == IntDiv(chunkPos, LMMS_MEASURE_LENGTH) + 1

\* lines 435-442: the running measure counter after a note at newPos
assignMeasure(m, newPos) ==
    IF newPos >= m * LMMS_MEASURE_LENGTH
    THEN IF newPos < (m + 1) * LMMS_MEASURE_LENGTH
         THEN m + 1
         ELSE CeilDiv(newPos, LMMS_MEASURE_LENGTH) + 1
    ELSE m

\* line 448: sorted() is stable
RECURSIVE SortByPos(_)
SortByPos(s) ==
    IF s = <<>> THEN <<>>
    ELSE LET rest == SortByPos(SubSeq(s, 1, Len(s) - 1))
             x == s[Len(s)]
             before == SelectSeq(rest, LAMBDA y : y.pos <= x.pos)
             after == SelectSeq(rest, LAMBDA y : y.pos > x.pos)
         IN  before \o <<x>> \o after

----------------------------------------------------------------------------
(* Inputs *)

MaxNotes == 3       \* notes of the single track of a one-track project
MaxChunks == 2      \* pattern chunks of that track
MaxTracks == 3      \* tracks of a several-track project
MaxGap == 400       \* largest argument of a stand-alone getRests call
MaxLength == 200    \* largest argument of a stand-alone findClosestNoteType call

\* note records of a pattern: chunk-relative position, length, piano key
NoteChoices ==
    {[pos |-> 0,   len |-> 48,  key |-> 60],
     [pos |-> 0,   len |-> 96,  key |-> 64],
     [pos |-> 48,  len |-> 48,  key |-> 67],
     [pos |-> 48,  len |-> 240, key |-> 61],
     [pos |-> 192, len |-> 48,  key |-> 48],
     [pos |-> 396, len |-> 48,  key |-> 70]}

ChunkOffsets == {0, 192}

\* the ways of cutting n notes into c chunks of at least one note each
ChunkSizes(n, c) == {sizes \in [1..c -> 1..n] : SumSeq(sizes) = n}

Pattern(o, ns) == [pos |-> o, notes |-> ns]

Note(p, l, key) == [pos |-> p, len |-> l, key |-> key]

\* the tracks of a several-track project
DocTracks ==
    {[name |-> "piano",  patterns |-> <<>>],
     [name |-> "flute",  patterns |-> <<Pattern(192, <<>>)>>],
     [name |-> "violin", patterns |-> <<Pattern(0, <<Note(0, 48, 60)>>)>>],
     [name |-> "bass",   patterns |-> <<Pattern(192, <<Note(0, 96, 36), Note(396, 48, 43)>>)>>],
     [name |-> "harp",   patterns |-> <<Pattern(0, <<Note(48, 48, 72)>>),
                                        Pattern(384, <<Note(0, 24, 74)>>)>>],
     [name |-> "oboe",   patterns |-> <<Pattern(0, <<Note(3, 48, 65)>>)>>],
     [name |-> "kicker", patterns |-> <<Pattern(0, <<Note(0, 48, 60)>>)>>]}

\* the pattern list holding the notes ns, cut into chunks of the given sizes and offsets
RECURSIVE Patterns(_, _, _)
Patterns(ns, sizes, offsets) ==
    IF sizes = <<>> THEN <<>>
    ELSE <<Pattern(Head(offsets), SubSeq(ns, 1, Head(sizes)))>>
             \o Patterns(SubSeq(ns, Head(sizes) + 1, Len(ns)), Tail(sizes), Tail(offsets))

\* a project of one recognised track: at most MaxChunks chunks, every chunk with at
\* least one note, at most MaxNotes notes in all
SingleTrackProject(project) ==
    \E n \in 0..MaxNotes : \E ns \in [1..n -> NoteChoices] :
        \E c \in 0..MaxChunks : \E sizes \in ChunkSizes(n, c) :
            \E offsets \in [1..c -> ChunkOffsets] :
                project = <<[name |-> "piano", patterns |-> Patterns(ns, sizes, offsets)]>>

\* a project of two to MaxTracks tracks
SeveralTrackProject(project) ==
    \E n \in 2..MaxTracks : project \in [1..n -> DocTracks]

PartId(n) == <<"P", n>>

ClefOf(name) == IF name \in BASS_INSTRUMENTS THEN "bass" ELSE "treble"

----------------------------------------------------------------------------
(* The script *)

\* the state after the tree is parsed and the output tree is set up (lines 334-366)
Init ==
    /\ \/ SingleTrackProject(tracks)
       \/ SeveralTrackProject(tracks)
    /\ pc = "declare"
    /\ ti = 1
    /\ partList = <<>>
    /\ parts = <<>>
    /\ instrumentCounter = 1
    /\ emptyInstruments = <<>>
    /\ partMeasures = EmptyTable
    /\ ci = 0 /\ ni = 0 /\ measureNum = 0
    /\ patternNotes = <<>>
    /\ notes = <<>>
    /\ positionLengths = EmptyTable
    /\ k = 0
    /\ lastMeasureNum = 0
    /\ positionsSeen = {}
    /\ currMeasure = 0
    /\ gap = 0
    /\ restsToAdd = <<>>
    /\ givenLength = 0
    /\ closestType = ""

layoutVars == <<notes, positionLengths, k, lastMeasureNum, positionsSeen, currMeasure>>
flattenVars == <<ci, ni, measureNum, patternNotes>>
restVars == <<gap, restsToAdd, givenLength, closestType>>

\* lines 367-375: one iteration of the part-list loop
DeclarePart ==
    /\ pc = "declare"
    /\ ti <= Len(tracks)
    /\ IF tracks[ti].name \in INSTRUMENTS
       THEN /\ partList' = Append(partList, [id |-> PartId(instrumentCounter),
                                             name |-> tracks[ti].name, track |-> ti])
            /\ instrumentCounter' = instrumentCounter + 1
       ELSE UNCHANGED <<partList, instrumentCounter>>
    /\ ti' = ti + 1
    /\ UNCHANGED <<tracks, pc, parts, emptyInstruments, partMeasures,
                   flattenVars, layoutVars, restVars>>

\* lines 386-390: between the two loops over the tracks
ResetCounter ==
    /\ pc = "declare"
    /\ ti > Len(tracks)
    /\ instrumentCounter' = 1
    /\ partMeasures' = EmptyTable
    /\ ti' = 1
    /\ pc' = "track"
    /\ UNCHANGED <<tracks, partList, parts, emptyInstruments,
                   flattenVars, layoutVars, restVars>>

\* the first (chunk, note) at or after (c, n) that exists; chunk Len+1 when none does
RECURSIVE SkipTo(_, _, _)
SkipTo(patterns, c, n) ==
    IF c > Len(patterns) THEN <<c, 0>>
    ELSE IF n <= Len(patterns[c].notes) THEN <<c, n>>
    ELSE SkipTo(patterns, c + 1, 1)

\* line 420 runs once for every chunk entered: the counter m of chunk c, once the
\* loops have moved on to chunk c2 (Len + 1: past the last chunk)
RunningMeasure(patterns, c, c2, m) ==
    IF c2 = c THEN m
    ELSE IF c2 <= Len(patterns) THEN ChunkMeasure(patterns[c2].pos)
    ELSE IF c < Len(patterns) THEN ChunkMeasure(patterns[Len(patterns)].pos)
    ELSE m

\* lines 393-410: a track is taken up; an unrecognised one is passed over
OpenTrack ==
    /\ pc = "track"
    /\ ti <= Len(tracks)
    /\ IF tracks[ti].name \in INSTRUMENTS
       THEN /\ parts' = Append(parts, [id |-> PartId(instrumentCounter), track |-> ti,
                                       measures |-> <<>>])
            /\ currMeasure' = 0
            /\ patternNotes' = <<>>
            /\ LET at == SkipTo(tracks[ti].patterns, 1, 1)
               IN  /\ ci' = at[1]
                   /\ ni' = at[2]
                   /\ measureNum' = RunningMeasure(tracks[ti].patterns, 0, at[1], measureNum)
            /\ pc' = "flatten"
            /\ UNCHANGED ti
       ELSE /\ ti' = ti + 1
            /\ UNCHANGED <<parts, currMeasure, patternNotes, ci, ni, measureNum, pc>>
    /\ UNCHANGED <<tracks, partList, instrumentCounter, emptyInstruments, partMeasures,
                   notes, positionLengths, k, lastMeasureNum, positionsSeen, restVars>>

\* lines 422-444: one note of a chunk is given its absolute position and its measure
FlattenNote ==
    /\ pc = "flatten"
    /\ ci <= Len(tracks[ti].patterns)
    /\ LET chunk == tracks[ti].patterns[ci]
           n == chunk.notes[ni]
           newPos == chunk.pos + n.pos
           m == assignMeasure(measureNum, newPos)
           at == SkipTo(tracks[ti].patterns, ci, ni + 1)
       IN  /\ patternNotes' = Append(patternNotes,
                                     [pos |-> newPos, len |-> n.len, key |-> n.key,
                                      measure |-> m])
           /\ ci' = at[1]
           /\ ni' = at[2]
           /\ measureNum' = RunningMeasure(tracks[ti].patterns, ci, at[1], m)
    /\ UNCHANGED <<tracks, pc, ti, partList, parts, instrumentCounter, emptyInstruments,
                   partMeasures, layoutVars, restVars>>

\* lines 448-463: a track without notes is recorded and left, the counter unchanged
EmptyTrack ==
    /\ pc = "flatten"
    /\ ci > Len(tracks[ti].patterns)
    /\ patternNotes = <<>>
    /\ notes' = <<>>
    /\ emptyInstruments' = Append(emptyInstruments, PartId(instrumentCounter))
    /\ ti' = ti + 1
    /\ pc' = "track"
    /\ UNCHANGED <<tracks, partList, parts, instrumentCounter, partMeasures, flattenVars,
                   positionLengths, k, lastMeasureNum, positionsSeen, currMeasure, restVars>>

\* lines 472-495: the measures of a part up to the one of its first note
FirstMeasures(name, firstNoteMeasureNum) ==
    IF firstNoteMeasureNum = 1
    THEN <<createFirstMeasure(firstNoteMeasureNum, ClefOf(name), FALSE)>>
    ELSE [i \in 1..(firstNoteMeasureNum - 1) |->
             IF i = 1 THEN createFirstMeasure(i, ClefOf(name), TRUE)
             ELSE addRestMeasure(i)]
         \o <<addNewMeasure(firstNoteMeasureNum)>>

\* parts with the measures ms appended to the part being written (the last one)
AppendMeasures(ps, ms) ==
    [ps EXCEPT ![Len(ps)].measures = @ \o ms]

\* parts with the items its appended to measure c of the part being written
AppendItems(ps, c, its) ==
    [ps EXCEPT ![Len(ps)].measures[c].items = @ \o its]

\* lines 448-501: sort, length table, first measure(s)
PrepareLayout ==
    /\ pc = "flatten"
    /\ ci > Len(tracks[ti].patterns)
    /\ patternNotes # <<>>
    /\ LET sorted == SortByPos(patternNotes)
           first == FirstMeasures(tracks[ti].name, sorted[1].measure)
       IN  /\ notes' = sorted
           /\ patternNotes' = sorted
           /\ positionLengths' = createLengthTable(sorted)
           /\ parts' = AppendMeasures(parts, first)
           /\ currMeasure' = Len(first)
           /\ lastMeasureNum' = sorted[1].measure
    /\ partMeasures' = [t \in DOMAIN partMeasures \cup {ti} |->
                           IF t = ti THEN 0 ELSE partMeasures[t]]
    /\ positionsSeen' = {}
    /\ k' = 1
    /\ pc' = "layout"
    /\ UNCHANGED <<tracks, ti, partList, instrumentCounter, emptyInstruments,
                   ci, ni, measureNum, restVars>>

\* the length a note at position p takes up in its measure
NotatedLength(table, p) == NOTE_TYPE[findClosestNoteType(table[p])]

\* lines 515-531 and 551-566: the rests before note i (measured from "from") and the
\* note, or the note as a chord note
NoteItems(noteList, i, table, seen, from) ==
    IF noteList[i].pos \in seen
    THEN <<addNote(noteList[i], TRUE, table)>>
    ELSE RestItems(getRests(noteList[i].pos - from))
             \o <<addNote(noteList[i], FALSE, table)>>

\* lines 534-539 and 572-576: the rests padding the measure after its last note
PadItems(noteList, i, table) ==
    IF (i < Len(noteList) /\ noteList[i + 1].measure > noteList[i].measure)
           \/ i = Len(noteList)
    THEN RestItems(getRests(noteList[i].measure * LMMS_MEASURE_LENGTH
                            - (noteList[i].pos + NotatedLength(table, noteList[i].pos))))
    ELSE <<>>

\* lines 543-545: the whole-rest measures for the measures skipped before note i
SkippedMeasures(noteList, i, last) ==
    LET numWholeRests == noteList[i].measure - last - 1
    IN  [j \in 1..(IF numWholeRests > 0 THEN numWholeRests ELSE 0) |->
            addRestMeasure(noteList[i - 1].measure + (j - 1) + 1)]

\* lines 502-579: one iteration of the layout loop
LayoutNote ==
    /\ pc = "layout"
    /\ k <= Len(notes)
    /\ LET note == notes[k]
           m == note.measure
           measureStart == (m - 1) * LMMS_MEASURE_LENGTH
       IN  /\ measureNum' = m
           /\ IF lastMeasureNum = m
              THEN LET from == IF k > 1
                               THEN notes[k - 1].pos
                                        + NotatedLength(positionLengths, notes[k - 1].pos)
                               ELSE measureStart
                   IN  /\ parts' = AppendItems(parts, currMeasure,
                                       NoteItems(notes, k, positionLengths, positionsSeen, from)
                                           \o PadItems(notes, k, positionLengths))
                       /\ positionsSeen' = positionsSeen \cup {note.pos}
                       /\ UNCHANGED currMeasure
              ELSE IF k > 1
              THEN LET opened == AppendMeasures(parts,
                                     SkippedMeasures(notes, k, lastMeasureNum)
                                         \o <<addNewMeasure(m)>>)
                       c == Len(opened[Len(opened)].measures)
                   IN  /\ parts' = AppendItems(opened, c,
                                       NoteItems(notes, k, positionLengths, positionsSeen,
                                                 measureStart)
                                           \o PadItems(notes, k, positionLengths))
                       /\ currMeasure' = c
                       /\ positionsSeen' = positionsSeen \cup {note.pos}
              ELSE UNCHANGED <<parts, currMeasure, positionsSeen>>
           /\ partMeasures' = [partMeasures EXCEPT ![ti] = m]
           /\ lastMeasureNum' = m
    /\ k' = k + 1
    /\ UNCHANGED <<tracks, pc, ti, partList, instrumentCounter, emptyInstruments,
                   ci, ni, patternNotes, notes, positionLengths, restVars>>

\* line 582: move to the next instrument
FinishPart ==
    /\ pc = "layout"
    /\ k > Len(notes)
    /\ instrumentCounter' = instrumentCounter + 1
    /\ ti' = ti + 1
    /\ pc' = "track"
    /\ UNCHANGED <<tracks, partList, parts, emptyInstruments, partMeasures,
                   flattenVars, layoutVars, restVars>>

\* lines 585-588
HighestNumMeasures(pm) ==
    IF DOMAIN pm = {} THEN 0
    ELSE LET top == Max({pm[t] : t \in DOMAIN pm})
         IN  IF top > 0 THEN top ELSE 0

\* TrailingMeasures with the range stopping one measure short
TrailingMeasuresShort(last, highest) ==
    IF last < highest
    THEN [j \in 1..(highest - last - 1) |-> addRestMeasure(last + j)]
    ELSE <<>>

\* lines 591-593: the rest measures appended to a part whose last measure is last
TrailingMeasures(last, highest) ==
    IF last < highest
    THEN [j \in 1..(highest - last) |-> addRestMeasure(last + j)]
    ELSE <<>>

\* lines 585-593: every part is given as many measures as the longest one
PadParts ==
    /\ pc = "track"
    /\ ti > Len(tracks)
    /\ parts' = [i \in 1..Len(parts) |->
                    IF parts[i].track \in DOMAIN partMeasures
                    THEN [parts[i] EXCEPT !.measures =
                             @ \o TrailingMeasures(partMeasures[parts[i].track],
                                                   HighestNumMeasures(partMeasures))]
                    ELSE parts[i]]
    /\ pc' = "remove"
    /\ UNCHANGED <<tracks, ti, partList, instrumentCounter, emptyInstruments, partMeasures,
                   flattenVars, layoutVars, restVars>>

\* lines 597-604: what is left of a list of elements once those with an id in ids are removed
RemoveIds(elements, ids) ==
    SelectSeq(elements, LAMBDA e : \A j \in 1..Len(ids) : e.id # ids[j])

\* lines 596-604: the parts recorded as empty are removed from the document
RemoveEmpty ==
    /\ pc = "remove"
    /\ parts' = RemoveIds(parts, emptyInstruments)
    /\ partList' = RemoveIds(partList, emptyInstruments)
    /\ pc' = "done"
    /\ UNCHANGED <<tracks, ti, instrumentCounter, emptyInstruments, partMeasures,
                   flattenVars, layoutVars, restVars>>

Next ==
    \/ DeclarePart
    \/ ResetCounter
    \/ OpenTrack
    \/ FlattenNote
    \/ EmptyTrack
    \/ PrepareLayout
    \/ LayoutNote
    \/ FinishPart
    \/ PadParts
    \/ RemoveEmpty

Spec == Init /\ [][Next]_vars

----------------------------------------------------------------------------
(* getRests on its own *)

InitRests ==
    /\ tracks = <<>>
    /\ pc = "rests"
    /\ ti = 1
    /\ partList = <<>>
    /\ parts = <<>>
    /\ instrumentCounter = 1
    /\ emptyInstruments = <<>>
    /\ partMeasures = EmptyTable
    /\ ci = 0 /\ ni = 0 /\ measureNum = 0
    /\ patternNotes = <<>>
    /\ notes = <<>>
    /\ positionLengths = EmptyTable
    /\ k = 0
    /\ lastMeasureNum = 0
    /\ positionsSeen = {}
    /\ currMeasure = 0
    /\ gap \in 0..MaxGap
    /\ restsToAdd = <<>>
    /\ givenLength = 0
    /\ closestType = ""

CallGetRests ==
    /\ pc = "rests"
    /\ restsToAdd' = getRests(gap)
    /\ pc' = "rested"
    /\ UNCHANGED <<tracks, ti, partList, parts, instrumentCounter, emptyInstruments,
                   partMeasures, flattenVars, layoutVars, gap, givenLength, closestType>>

NextRests == CallGetRests

SpecRests == InitRests /\ [][NextRests]_vars

----------------------------------------------------------------------------
(* findClosestNoteType on its own *)

InitNoteType ==
    /\ tracks = <<>>
    /\ pc = "type"
    /\ ti = 1
    /\ partList = <<>>
    /\ parts = <<>>
    /\ instrumentCounter = 1
    /\ emptyInstruments = <<>>
    /\ partMeasures = EmptyTable
    /\ ci = 0 /\ ni = 0 /\ measureNum = 0
    /\ patternNotes = <<>>
    /\ notes = <<>>
    /\ positionLengths = EmptyTable
    /\ k = 0
    /\ lastMeasureNum = 0
    /\ positionsSeen = {}
    /\ currMeasure = 0
    /\ gap = 0
    /\ restsToAdd = <<>>
    /\ givenLength \in 0..MaxLength
    /\ closestType = ""

CallFindClosestNoteType ==
    /\ pc = "type"
    /\ closestType' = findClosestNoteType(givenLength)
    /\ pc' = "typed"
    /\ UNCHANGED <<tracks, ti, partList, parts, instrumentCounter, emptyInstruments,
                   partMeasures, flattenVars, layoutVars, gap, restsToAdd, givenLength>>

NextNoteType == CallFindClosestNoteType

SpecNoteType == InitNoteType /\ [][NextNoteType]_vars

----------------------------------------------------------------------------
(* Properties *)

\* the number of note records of a track
NoteCount(track) == SumSeq([c \in 1..Len(track.patterns) |-> Len(track.patterns[c].notes)])

Recognised(t) == tracks[t].name \in INSTRUMENTS

DeclarationsOf(t) == {i \in 1..Len(partList) : partList[i].track = t}

BodiesOf(t) == {i \in 1..Len(parts) : parts[i].track = t}

\* C1: once the conversion is over, a recognised track without notes has neither a
\* score-part declaration nor a part body in the document, and every recognised track
\* with at least one note has its one declaration and its one body, under the same id.
C1_EmptyTracksExcluded ==
    pc = "done" =>
        \A t \in 1..Len(tracks) :
            Recognised(t) =>
                IF NoteCount(tracks[t]) = 0
                THEN DeclarationsOf(t) = {} /\ BodiesOf(t) = {}
                ELSE /\ Cardinality(DeclarationsOf(t)) = 1
                     /\ Cardinality(BodiesOf(t)) = 1
                     /\ \A d \in DeclarationsOf(t), b \in BodiesOf(t) :
                            partList[d].id = parts[b].id

\* the duration an item contributes to its measure (an empty duration text: none)
ItemDuration(it) ==
    IF it.kind = "note" /\ it.chord THEN 0
    ELSE IF it.duration = <<>> THEN 0
    ELSE it.duration[1]

MeasureTotal(measure) ==
    SumSeq([x \in 1..Len(measure.items) |-> ItemDuration(measure.items[x])])

HoldsNote(measure) == \E x \in 1..Len(measure.items) : measure.items[x].kind = "note"

\* the absolute positions and the lengths of the notes of a track are multiples of 6
OnGrid(track) ==
    \A c \in 1..Len(track.patterns) :
        \A n \in 1..Len(track.patterns[c].notes) :
            /\ (track.patterns[c].pos + track.patterns[c].notes[n].pos) % 6 = 0
            /\ track.patterns[c].notes[n].len % 6 = 0

\* C2: in a part whose note positions and lengths are all multiples of 6 ticks, every
\* measure holding a note has rests and non-chord notes adding up to 32 duration units.
C2_MeasuresFilled ==
    pc = "done" =>
        \A i \in 1..Len(parts) :
            OnGrid(tracks[parts[i].track]) =>
                \A j \in 1..Len(parts[i].measures) :
                    HoldsNote(parts[i].measures[j]) =>
                        MeasureTotal(parts[i].measures[j]) = 32

\* C3: after the padding every part body of the document ends at the highest final
\* measure index of all parts: a part whose last note is in measure m < highest ends
\* with exactly the whole-rest measures m+1 .. highest, right after its measure m.
C3_PartsEndTogether ==
    pc = "done" =>
        LET highest == HighestNumMeasures(partMeasures)
        IN  \A i \in 1..Len(parts) :
                LET ms == parts[i].measures
                    m == partMeasures[parts[i].track]
                    n == Len(ms)
                IN  /\ ms[n].number = highest
                    /\ n > highest - m
                    /\ ms[n - (highest - m)].number = m
                    /\ HoldsNote(ms[n - (highest - m)])
                    /\ \A j \in 1..(highest - m) :
                           ms[n - (highest - m) + j] = addRestMeasure(m + j)

\* C3 witness: a document of two parts, one of which was padded by two measures
C3_Witness ==
    /\ pc = "done"
    /\ Len(parts) = 2
    /\ \E i \in 1..Len(parts) :
           partMeasures[parts[i].track] + 2 = HighestNumMeasures(partMeasures)

\* the positions of a note list
Positions(noteList) == {noteList[i].pos : i \in 1..Len(noteList)}

\* the index of the first note at position p
FirstAt(noteList, p) == CHOOSE i \in 1..Len(noteList) :
    noteList[i].pos = p /\ \A j \in 1..(i - 1) : noteList[j].pos # p

\* the end tick of the measure assigned to the first note at p
MeasureEnd(noteList, p) == noteList[FirstAt(noteList, p)].measure * LMMS_MEASURE_LENGTH

Min(S) == CHOOSE x \in S : \A y \in S : x <= y

\* C4: the effective length recorded for a position never crosses the end of the
\* measure assigned to the first note at that position: p + table[p] <= b.
C4_WithinMeasure ==
    pc = "layout" =>
        /\ DOMAIN positionLengths = Positions(notes)
        /\ \A p \in DOMAIN positionLengths :
               p + positionLengths[p] <= MeasureEnd(notes, p)

\* C4 witness: a table entry cut down to the measure boundary
C4_Witness ==
    /\ pc = "layout"
    /\ \E p \in DOMAIN positionLengths :
           /\ p + notes[FirstAt(notes, p)].len > MeasureEnd(notes, p)
           /\ p + positionLengths[p] = MeasureEnd(notes, p)

\* C5: for two distinct positions p1 < p2 that are consecutive in the sorted note
\* list, the effective length at p1 does not reach past p2, chord or not.
C5_NoOverlapWithNext ==
    pc = "layout" =>
        \A i \in 1..(Len(notes) - 1) :
            notes[i].pos # notes[i + 1].pos =>
                /\ notes[i].pos < notes[i + 1].pos
                /\ notes[i].pos + positionLengths[notes[i].pos] <= notes[i + 1].pos

\* C5 witness: a chord whose notes all reach past the next position, cut down to it
C5_Witness ==
    /\ pc = "layout"
    /\ \E i \in 2..(Len(notes) - 1) :
           /\ notes[i - 1].pos = notes[i].pos
           /\ notes[i].pos < notes[i + 1].pos
           /\ notes[i - 1].pos + notes[i - 1].len > notes[i + 1].pos
           /\ notes[i].pos + notes[i].len > notes[i + 1].pos
           /\ notes[i].pos + positionLengths[notes[i].pos] = notes[i + 1].pos

\* the bounds that apply to position p: the raw lengths of the notes at p, the
\* distance to the end of the first one's measure, the distance to the next position
BoundsAt(noteList, p) ==
    {noteList[i].len : i \in {j \in 1..Len(noteList) : noteList[j].pos = p}}
        \cup {MeasureEnd(noteList, p) - p}
        \cup {q - p : q \in {r \in Positions(noteList) :
                                r > p /\ \A x \in Positions(noteList) : ~(p < x /\ x < r)}}

\* the note list with the notes in slots i and j exchanged, each slot keeping the
\* position and the measure the flattening gave it
Exchange(noteList, i, j) ==
    [x \in 1..Len(noteList) |->
        IF x = i THEN [noteList[i] EXCEPT !.len = noteList[j].len, !.key = noteList[j].key]
        ELSE IF x = j THEN [noteList[j] EXCEPT !.len = noteList[i].len, !.key = noteList[i].key]
        ELSE noteList[x]]

\* C6: every entry of the length table is the least of the bounds that apply to its
\* position, so the table is the same whichever of the notes sharing a position
\* comes first in the input.
C6_TableIsMinimum ==
    pc = "layout" =>
        /\ DOMAIN positionLengths = Positions(notes)
        /\ \A p \in DOMAIN positionLengths :
               positionLengths[p] = Min(BoundsAt(notes, p))
        /\ \A i, j \in 1..Len(notes) :
               (i < j /\ notes[i].pos = notes[j].pos) =>
                   createLengthTable(Exchange(notes, i, j)) = positionLengths

\* C6 witness: a chord of a longer and then a shorter note with a later position
\* after it, the entry being the shorter raw length
C6_Witness ==
    /\ pc = "layout"
    /\ \E i \in 1..(Len(notes) - 2) :
           /\ notes[i].pos = notes[i + 1].pos
           /\ notes[i].len > notes[i + 1].len
           /\ notes[i + 2].pos > notes[i].pos
           /\ positionLengths[notes[i].pos] = notes[i + 1].len

\* C7: once the flattened notes of a track are sorted by absolute position, their
\* measure indices are non-decreasing along the list.
C7_MeasuresNonDecreasing ==
    pc = "layout" =>
        \A i \in 1..(Len(notes) - 1) : notes[i].measure <= notes[i + 1].measure

\* C8: a note whose absolute position is exactly k * 192 is given measure k + 1 by
\* the flattening, whatever was flattened before it.
C8_BoundaryPositions ==
    \A i \in 1..Len(patternNotes) :
        patternNotes[i].pos % LMMS_MEASURE_LENGTH = 0 =>
            patternNotes[i].measure = (patternNotes[i].pos \div LMMS_MEASURE_LENGTH) + 1

\* the note the flattening loop is about to take lies two or more measures beyond
\* the running measure (the branch of line 442)
JumpsAhead ==
    /\ pc = "flatten"
    /\ ci <= Len(tracks[ti].patterns)
    /\ tracks[ti].patterns[ci].pos + tracks[ti].patterns[ci].notes[ni].pos
           >= (measureNum + 1) * LMMS_MEASURE_LENGTH

\* C9: a note taken through the jump-ahead branch is given the measure that holds its
\* position: (m - 1) * 192 <= position < m * 192.
C9_JumpAheadHoldsPosition ==
    [][JumpsAhead =>
          LET n == patternNotes'[Len(patternNotes')]
          IN  /\ (n.measure - 1) * LMMS_MEASURE_LENGTH <= n.pos
              /\ n.pos < n.measure * LMMS_MEASURE_LENGTH]_vars

\* the ticks of a getRests result: every count times the length of its type
RestTicks(rests) == SumSeq([x \in 1..Len(rests) |-> rests[x][2] * NOTE_TYPE[rests[x][1]]])

\* C10: for a gap g >= 0 the rests returned by getRests add up to g - r ticks with
\* 0 <= r < 3, and no count is negative.
C10_RestsCoverGap ==
    pc = "rested" =>
        /\ Len(restsToAdd) = 6
        /\ \A x \in 1..Len(restsToAdd) : restsToAdd[x][2] >= 0
        /\ gap - RestTicks(restsToAdd) \in 0..2

\* C10 witness: a gap that takes a rest of every type and leaves two ticks over
C10_Witness ==
    /\ pc = "rested"
    /\ \A x \in 1..Len(restsToAdd) : restsToAdd[x][2] >= 1
    /\ gap - RestTicks(restsToAdd) = 2

\* the documented table of lengths and note types
DocumentedTypes ==
    << <<192, "whole">>, <<168, "half">>, <<144, "half">>, <<96, "half">>,
       <<72, "quarter">>, <<48, "quarter">>, <<36, "eighth">>, <<24, "eighth">>,
       <<12, "16th">>, <<6, "32nd">>, <<3, "64th">> >>

\* C11: findClosestNoteType returns, for every length L >= 3, the type of the largest
\* key of the documented table that is <= L, and "64th" for every L < 3.
C11_ClosestNoteType ==
    pc = "typed" =>
        IF givenLength < 3 THEN closestType = "64th"
        ELSE \E x \in 1..Len(DocumentedTypes) :
                 /\ DocumentedTypes[x][1] <= givenLength
                 /\ \A y \in 1..Len(DocumentedTypes) :
                        DocumentedTypes[y][1] <= givenLength =>
                            DocumentedTypes[y][1] <= DocumentedTypes[x][1]
                 /\ closestType = DocumentedTypes[x][2]

\* C11 witness: a length between two keys takes the type of the key below it
C11_Witness ==
    /\ pc = "typed"
    /\ givenLength = 100
    /\ closestType = "half"

\* the part being written, and its items in document order, measure after measure
CurrentPart == parts[Len(parts)]

RECURSIVE ItemsOf(_)
ItemsOf(measures) ==
    IF measures = <<>> THEN <<>> ELSE Head(measures).items \o ItemsOf(Tail(measures))

\* the index in the item sequence its of the n-th pitched note
RECURSIVE NthNote(_, _, _)
NthNote(its, n, from) ==
    IF its[from].kind = "note"
    THEN IF n = 1 THEN from ELSE NthNote(its, n - 1, from + 1)
    ELSE NthNote(its, n, from + 1)

LayoutOver == pc = "layout" /\ k > Len(notes)

\* C12: of the notes of a part that share a position, the first in input order is laid
\* out as a plain note and every later one as a chord note, with no rest between them,
\* and all of them carry the duration and the type of the length-table entry of the
\* position, not of their own raw length.
C12_ChordGroups ==
    LayoutOver =>
        LET its == ItemsOf(CurrentPart.measures)
        IN  \A n \in 1..Len(notes) :
                LET it == its[NthNote(its, n, 1)]
                    later == \E j \in 1..(n - 1) : notes[j].pos = notes[n].pos
                IN  /\ it.pos = notes[n].pos
                    /\ it.step = NOTES[notes[n].key % 12][1]
                    /\ it.octave = notes[n].key \div 12
                    /\ it.chord = later
                    /\ later => NthNote(its, n, 1) = NthNote(its, n - 1, 1) + 1
                    /\ it.type = findClosestNoteType(positionLengths[notes[n].pos])
                    /\ it.duration = <<NOTE_TYPE[it.type] \div 6>>

\* C13: the measures of a part body are numbered 1, 2, ..., N without a gap or a
\* repetition, N being the measure of the part's last note; a measure without any
\* note (before the first note, or skipped between two notes) is one whole-rest measure.
C13_MeasuresConsecutive ==
    LayoutOver =>
        LET ms == CurrentPart.measures
            last == notes[Len(notes)].measure
        IN  /\ Len(ms) = last
            /\ \A j \in 1..Len(ms) :
                   /\ ms[j].number = j
                   /\ IF \E n \in 1..Len(notes) : notes[n].measure = j
                      THEN HoldsNote(ms[j])
                      ELSE ms[j].items = <<MeasureRest>>

\* the rest types a rest list can hold
RestTypes == {"64th", "32nd", "16th", "eighth", "quarter", "whole"}

\* C14: every rest that the layout puts inside a measure, of whichever type getRests
\* can report (64th, 32nd, 16th, eighth, quarter, whole), carries a duration, and the
\* duration is the tick length of its type divided by 6.
C14_RestDurations ==
    \A i \in 1..Len(parts) :
        \A j \in 1..Len(parts[i].measures) :
            \A x \in 1..Len(parts[i].measures[j].items) :
                LET it == parts[i].measures[j].items[x]
                IN  (it.kind = "rest" /\ ~it.measure /\ it.type \in RestTypes) =>
                        /\ Len(it.duration) = 1
                        /\ it.duration[1] * 6 = NOTE_TYPE[it.type]

\* C15: when every note of a track has a positive length, every entry of the length
\* table built from its flattened, tagged and sorted notes is positive, whether the
\* entry was cut at the end of the measure, cut at the next note, or not cut at all.
C15_EntriesPositive ==
    (pc = "layout" /\ \A n \in 1..Len(notes) : notes[n].len > 0) =>
        /\ DOMAIN positionLengths = Positions(notes)
        /\ \A p \in DOMAIN positionLengths : positionLengths[p] > 0

\* a table with one entry cut at the end of the measure and one cut at the next note
C15_Witness ==
    /\ pc = "layout"
    /\ \A n \in 1..Len(notes) : notes[n].len > 0
    /\ \E n \in 1..Len(notes) :
           /\ notes[n].pos + notes[n].len > LMMS_MEASURE_LENGTH * notes[n].measure
           /\ positionLengths[notes[n].pos] = LMMS_MEASURE_LENGTH * notes[n].measure - notes[n].pos
    /\ \E n \in 1..(Len(notes) - 1) :
           /\ notes[n + 1].pos > notes[n].pos
           /\ notes[n].pos + notes[n].len > notes[n + 1].pos
           /\ positionLengths[notes[n].pos] = notes[n + 1].pos - notes[n].pos

====
